---- MODULE Spec2Model ----
(***************************************************************************)
(* Model of src/app.py: the Flask handler index(), the extension check     *)
(* allowed_file() and the analyser analyze_image().                        *)
(*                                                                         *)
(* A filename is a sequence of characters, each its Unicode code point     *)
(* ('.' is 46, 'p' is 112).                                                *)
(* An upload is the byte stream of the 'file' field; what OpenCV makes of  *)
(* it is part of the upload: whether it is empty, whether cv2.imdecode can *)
(* parse it, the HSV pixels that cv2.cvtColor yields and the outer         *)
(* contours (sequences of at least one point) that Canny and               *)
(* cv2.findContours yield.  np.fromstring (line 92) is taken to accept     *)
(* binary input, as it does in the NumPy releases that still have that     *)
(* mode.  Everything app.py itself computes from those (band counts,       *)
(* colour label, bounding rectangles, areas, the plate filter, the         *)
(* validation chain) is computed here as the code does.                    *)
(***************************************************************************)
EXTENDS Integers, Sequences, FiniteSets, TLC

VARIABLES
    request,    \* the request index() is handling / has just handled
    steps,      \* the operations index() performed for it, in order
    image,      \* index()'s local 'image' (line 93) once the call is over
    response    \* what the client received

vars == <<request, steps, image, response>>

(***************************************************************************)
(* Bounds of the model.                                                    *)
(***************************************************************************)
MaxPixels == 3
MaxCnts == 2
MaxNameLen == 4

(***************************************************************************)
(* Thresholds of analyze_image.                                            *)
(***************************************************************************)
red_lower == <<170, 100, 100>>
red_upper == <<180, 255, 255>>
blue_lower == <<100, 100, 100>>
blue_upper == <<140, 255, 255>>
green_lower == <<40, 50, 50>>
green_upper == <<80, 255, 255>>

AspectLow == 2
AspectHigh == 5
AreaLow == 100
AreaHigh == 5000

\* {'png', 'jpg', 'jpeg'}
ALLOWED_EXTENSIONS ==
    { <<112, 110, 103>>, <<106, 112, 103>>, <<106, 112, 101, 103>> }

\* The character '.'
Dot == 46

(***************************************************************************)
(* Strings: str.lower(), "'.' in s" and s.rsplit('.', 1).                  *)
(***************************************************************************)
\* str.lower() of the characters that lower to one other character, as ranges
\* <<first, last, step, offset>>: every step-th code point from first to last
\* lowers to itself plus offset (Unicode 14.0.0, the data of Python 3.11).
LowerRanges ==
    << <<65, 90, 1, 32>>, <<192, 214, 1, 32>>, <<216, 222, 1, 32>>, <<256, 302, 2, 1>>,
       <<306, 310, 2, 1>>, <<313, 327, 2, 1>>, <<330, 374, 2, 1>>, <<376, 376, 1, -121>>,
       <<377, 381, 2, 1>>, <<385, 385, 1, 210>>, <<386, 388, 2, 1>>, <<390, 390, 1, 206>>,
       <<391, 391, 1, 1>>, <<393, 394, 1, 205>>, <<395, 395, 1, 1>>, <<398, 398, 1, 79>>,
       <<399, 399, 1, 202>>, <<400, 400, 1, 203>>, <<401, 401, 1, 1>>, <<403, 403, 1, 205>>,
       <<404, 404, 1, 207>>, <<406, 406, 1, 211>>, <<407, 407, 1, 209>>, <<408, 408, 1, 1>>,
       <<412, 412, 1, 211>>, <<413, 413, 1, 213>>, <<415, 415, 1, 214>>, <<416, 420, 2, 1>>,
       <<422, 422, 1, 218>>, <<423, 423, 1, 1>>, <<425, 425, 1, 218>>, <<428, 428, 1, 1>>,
       <<430, 430, 1, 218>>, <<431, 431, 1, 1>>, <<433, 434, 1, 217>>, <<435, 437, 2, 1>>,
       <<439, 439, 1, 219>>, <<440, 440, 1, 1>>, <<444, 444, 1, 1>>, <<452, 452, 1, 2>>,
       <<453, 453, 1, 1>>, <<455, 455, 1, 2>>, <<456, 456, 1, 1>>, <<458, 458, 1, 2>>,
       <<459, 475, 2, 1>>, <<478, 494, 2, 1>>, <<497, 497, 1, 2>>, <<498, 500, 2, 1>>,
       <<502, 502, 1, -97>>, <<503, 503, 1, -56>>, <<504, 542, 2, 1>>, <<544, 544, 1, -130>>,
       <<546, 562, 2, 1>>, <<570, 570, 1, 10795>>, <<571, 571, 1, 1>>, <<573, 573, 1, -163>>,
       <<574, 574, 1, 10792>>, <<577, 577, 1, 1>>, <<579, 579, 1, -195>>, <<580, 580, 1, 69>>,
       <<581, 581, 1, 71>>, <<582, 590, 2, 1>>, <<880, 882, 2, 1>>, <<886, 886, 1, 1>>,
       <<895, 895, 1, 116>>, <<902, 902, 1, 38>>, <<904, 906, 1, 37>>, <<908, 908, 1, 64>>,
       <<910, 911, 1, 63>>, <<913, 929, 1, 32>>, <<931, 939, 1, 32>>, <<975, 975, 1, 8>>,
       <<984, 1006, 2, 1>>, <<1012, 1012, 1, -60>>, <<1015, 1015, 1, 1>>, <<1017, 1017, 1, -7>>,
       <<1018, 1018, 1, 1>>, <<1021, 1023, 1, -130>>, <<1024, 1039, 1, 80>>, <<1040, 1071, 1, 32>>,
       <<1120, 1152, 2, 1>>, <<1162, 1214, 2, 1>>, <<1216, 1216, 1, 15>>, <<1217, 1229, 2, 1>>,
       <<1232, 1326, 2, 1>>, <<1329, 1366, 1, 48>>, <<4256, 4293, 1, 7264>>, <<4295, 4295, 1, 7264>>,
       <<4301, 4301, 1, 7264>>, <<5024, 5103, 1, 38864>>, <<5104, 5109, 1, 8>>, <<7312, 7354, 1, -3008>>,
       <<7357, 7359, 1, -3008>>, <<7680, 7828, 2, 1>>, <<7838, 7838, 1, -7615>>, <<7840, 7934, 2, 1>>,
       <<7944, 7951, 1, -8>>, <<7960, 7965, 1, -8>>, <<7976, 7983, 1, -8>>, <<7992, 7999, 1, -8>>,
       <<8008, 8013, 1, -8>>, <<8025, 8031, 2, -8>>, <<8040, 8047, 1, -8>>, <<8072, 8079, 1, -8>>,
       <<8088, 8095, 1, -8>>, <<8104, 8111, 1, -8>>, <<8120, 8121, 1, -8>>, <<8122, 8123, 1, -74>>,
       <<8124, 8124, 1, -9>>, <<8136, 8139, 1, -86>>, <<8140, 8140, 1, -9>>, <<8152, 8153, 1, -8>>,
       <<8154, 8155, 1, -100>>, <<8168, 8169, 1, -8>>, <<8170, 8171, 1, -112>>, <<8172, 8172, 1, -7>>,
       <<8184, 8185, 1, -128>>, <<8186, 8187, 1, -126>>, <<8188, 8188, 1, -9>>, <<8486, 8486, 1, -7517>>,
       <<8490, 8490, 1, -8383>>, <<8491, 8491, 1, -8262>>, <<8498, 8498, 1, 28>>, <<8544, 8559, 1, 16>>,
       <<8579, 8579, 1, 1>>, <<9398, 9423, 1, 26>>, <<11264, 11311, 1, 48>>, <<11360, 11360, 1, 1>>,
       <<11362, 11362, 1, -10743>>, <<11363, 11363, 1, -3814>>, <<11364, 11364, 1, -10727>>, <<11367, 11371, 2, 1>>,
       <<11373, 11373, 1, -10780>>, <<11374, 11374, 1, -10749>>, <<11375, 11375, 1, -10783>>, <<11376, 11376, 1, -10782>>,
       <<11378, 11378, 1, 1>>, <<11381, 11381, 1, 1>>, <<11390, 11391, 1, -10815>>, <<11392, 11490, 2, 1>>,
       <<11499, 11501, 2, 1>>, <<11506, 11506, 1, 1>>, <<42560, 42604, 2, 1>>, <<42624, 42650, 2, 1>>,
       <<42786, 42798, 2, 1>>, <<42802, 42862, 2, 1>>, <<42873, 42875, 2, 1>>, <<42877, 42877, 1, -35332>>,
       <<42878, 42886, 2, 1>>, <<42891, 42891, 1, 1>>, <<42893, 42893, 1, -42280>>, <<42896, 42898, 2, 1>>,
       <<42902, 42920, 2, 1>>, <<42922, 42922, 1, -42308>>, <<42923, 42923, 1, -42319>>, <<42924, 42924, 1, -42315>>,
       <<42925, 42925, 1, -42305>>, <<42926, 42926, 1, -42308>>, <<42928, 42928, 1, -42258>>, <<42929, 42929, 1, -42282>>,
       <<42930, 42930, 1, -42261>>, <<42931, 42931, 1, 928>>, <<42932, 42946, 2, 1>>, <<42948, 42948, 1, -48>>,
       <<42949, 42949, 1, -42307>>, <<42950, 42950, 1, -35384>>, <<42951, 42953, 2, 1>>, <<42960, 42960, 1, 1>>,
       <<42966, 42968, 2, 1>>, <<42997, 42997, 1, 1>>, <<65313, 65338, 1, 32>>, <<66560, 66599, 1, 40>>,
       <<66736, 66771, 1, 40>>, <<66928, 66938, 1, 39>>, <<66940, 66954, 1, 39>>, <<66956, 66962, 1, 39>>,
       <<66964, 66965, 1, 39>>, <<68736, 68786, 1, 64>>, <<71840, 71871, 1, 32>>, <<93760, 93791, 1, 32>>,
       <<125184, 125217, 1, 34>> >>

\* The cased characters that are not case-ignorable, as ranges <<first, last>>.
CasedRanges ==
    << <<65, 90>>, <<97, 122>>, <<170, 170>>, <<181, 181>>, <<186, 186>>,
       <<192, 214>>, <<216, 246>>, <<248, 442>>, <<444, 447>>, <<452, 659>>,
       <<661, 687>>, <<880, 883>>, <<886, 887>>, <<891, 893>>, <<895, 895>>,
       <<902, 902>>, <<904, 906>>, <<908, 908>>, <<910, 929>>, <<931, 1013>>,
       <<1015, 1153>>, <<1162, 1327>>, <<1329, 1366>>, <<1376, 1416>>, <<4256, 4293>>,
       <<4295, 4295>>, <<4301, 4301>>, <<4304, 4346>>, <<4349, 4351>>, <<5024, 5109>>,
       <<5112, 5117>>, <<7296, 7304>>, <<7312, 7354>>, <<7357, 7359>>, <<7424, 7467>>,
       <<7531, 7543>>, <<7545, 7578>>, <<7680, 7957>>, <<7960, 7965>>, <<7968, 8005>>,
       <<8008, 8013>>, <<8016, 8023>>, <<8025, 8025>>, <<8027, 8027>>, <<8029, 8029>>,
       <<8031, 8061>>, <<8064, 8116>>, <<8118, 8124>>, <<8126, 8126>>, <<8130, 8132>>,
       <<8134, 8140>>, <<8144, 8147>>, <<8150, 8155>>, <<8160, 8172>>, <<8178, 8180>>,
       <<8182, 8188>>, <<8450, 8450>>, <<8455, 8455>>, <<8458, 8467>>, <<8469, 8469>>,
       <<8473, 8477>>, <<8484, 8484>>, <<8486, 8486>>, <<8488, 8488>>, <<8490, 8493>>,
       <<8495, 8500>>, <<8505, 8505>>, <<8508, 8511>>, <<8517, 8521>>, <<8526, 8526>>,
       <<8544, 8575>>, <<8579, 8580>>, <<9398, 9449>>, <<11264, 11387>>, <<11390, 11492>>,
       <<11499, 11502>>, <<11506, 11507>>, <<11520, 11557>>, <<11559, 11559>>, <<11565, 11565>>,
       <<42560, 42605>>, <<42624, 42651>>, <<42786, 42863>>, <<42865, 42887>>, <<42891, 42894>>,
       <<42896, 42954>>, <<42960, 42961>>, <<42963, 42963>>, <<42965, 42969>>, <<42997, 42998>>,
       <<43002, 43002>>, <<43824, 43866>>, <<43872, 43880>>, <<43888, 43967>>, <<64256, 64262>>,
       <<64275, 64279>>, <<65313, 65338>>, <<65345, 65370>>, <<66560, 66639>>, <<66736, 66771>>,
       <<66776, 66811>>, <<66928, 66938>>, <<66940, 66954>>, <<66956, 66962>>, <<66964, 66965>>,
       <<66967, 66977>>, <<66979, 66993>>, <<66995, 67001>>, <<67003, 67004>>, <<68736, 68786>>,
       <<68800, 68850>>, <<71840, 71903>>, <<93760, 93823>>, <<119808, 119892>>, <<119894, 119964>>,
       <<119966, 119967>>, <<119970, 119970>>, <<119973, 119974>>, <<119977, 119980>>, <<119982, 119993>>,
       <<119995, 119995>>, <<119997, 120003>>, <<120005, 120069>>, <<120071, 120074>>, <<120077, 120084>>,
       <<120086, 120092>>, <<120094, 120121>>, <<120123, 120126>>, <<120128, 120132>>, <<120134, 120134>>,
       <<120138, 120144>>, <<120146, 120485>>, <<120488, 120512>>, <<120514, 120538>>, <<120540, 120570>>,
       <<120572, 120596>>, <<120598, 120628>>, <<120630, 120654>>, <<120656, 120686>>, <<120688, 120712>>,
       <<120714, 120744>>, <<120746, 120770>>, <<120772, 120779>>, <<122624, 122633>>, <<122635, 122654>>,
       <<125184, 125251>>, <<127280, 127305>>, <<127312, 127337>>, <<127344, 127369>> >>

\* The case-ignorable characters, as ranges <<first, last>>.
CaseIgnorableRanges ==
    << <<39, 39>>, <<46, 46>>, <<58, 58>>, <<94, 94>>, <<96, 96>>,
       <<168, 168>>, <<173, 173>>, <<175, 175>>, <<180, 180>>, <<183, 184>>,
       <<688, 879>>, <<884, 885>>, <<890, 890>>, <<900, 901>>, <<903, 903>>,
       <<1155, 1161>>, <<1369, 1369>>, <<1375, 1375>>, <<1425, 1469>>, <<1471, 1471>>,
       <<1473, 1474>>, <<1476, 1477>>, <<1479, 1479>>, <<1524, 1524>>, <<1536, 1541>>,
       <<1552, 1562>>, <<1564, 1564>>, <<1600, 1600>>, <<1611, 1631>>, <<1648, 1648>>,
       <<1750, 1757>>, <<1759, 1768>>, <<1770, 1773>>, <<1807, 1807>>, <<1809, 1809>>,
       <<1840, 1866>>, <<1958, 1968>>, <<2027, 2037>>, <<2042, 2042>>, <<2045, 2045>>,
       <<2070, 2093>>, <<2137, 2139>>, <<2184, 2184>>, <<2192, 2193>>, <<2200, 2207>>,
       <<2249, 2306>>, <<2362, 2362>>, <<2364, 2364>>, <<2369, 2376>>, <<2381, 2381>>,
       <<2385, 2391>>, <<2402, 2403>>, <<2417, 2417>>, <<2433, 2433>>, <<2492, 2492>>,
       <<2497, 2500>>, <<2509, 2509>>, <<2530, 2531>>, <<2558, 2558>>, <<2561, 2562>>,
       <<2620, 2620>>, <<2625, 2626>>, <<2631, 2632>>, <<2635, 2637>>, <<2641, 2641>>,
       <<2672, 2673>>, <<2677, 2677>>, <<2689, 2690>>, <<2748, 2748>>, <<2753, 2757>>,
       <<2759, 2760>>, <<2765, 2765>>, <<2786, 2787>>, <<2810, 2815>>, <<2817, 2817>>,
       <<2876, 2876>>, <<2879, 2879>>, <<2881, 2884>>, <<2893, 2893>>, <<2901, 2902>>,
       <<2914, 2915>>, <<2946, 2946>>, <<3008, 3008>>, <<3021, 3021>>, <<3072, 3072>>,
       <<3076, 3076>>, <<3132, 3132>>, <<3134, 3136>>, <<3142, 3144>>, <<3146, 3149>>,
       <<3157, 3158>>, <<3170, 3171>>, <<3201, 3201>>, <<3260, 3260>>, <<3263, 3263>>,
       <<3270, 3270>>, <<3276, 3277>>, <<3298, 3299>>, <<3328, 3329>>, <<3387, 3388>>,
       <<3393, 3396>>, <<3405, 3405>>, <<3426, 3427>>, <<3457, 3457>>, <<3530, 3530>>,
       <<3538, 3540>>, <<3542, 3542>>, <<3633, 3633>>, <<3636, 3642>>, <<3654, 3662>>,
       <<3761, 3761>>, <<3764, 3772>>, <<3782, 3782>>, <<3784, 3789>>, <<3864, 3865>>,
       <<3893, 3893>>, <<3895, 3895>>, <<3897, 3897>>, <<3953, 3966>>, <<3968, 3972>>,
       <<3974, 3975>>, <<3981, 3991>>, <<3993, 4028>>, <<4038, 4038>>, <<4141, 4144>>,
       <<4146, 4151>>, <<4153, 4154>>, <<4157, 4158>>, <<4184, 4185>>, <<4190, 4192>>,
       <<4209, 4212>>, <<4226, 4226>>, <<4229, 4230>>, <<4237, 4237>>, <<4253, 4253>>,
       <<4348, 4348>>, <<4957, 4959>>, <<5906, 5908>>, <<5938, 5939>>, <<5970, 5971>>,
       <<6002, 6003>>, <<6068, 6069>>, <<6071, 6077>>, <<6086, 6086>>, <<6089, 6099>>,
       <<6103, 6103>>, <<6109, 6109>>, <<6155, 6159>>, <<6211, 6211>>, <<6277, 6278>>,
       <<6313, 6313>>, <<6432, 6434>>, <<6439, 6440>>, <<6450, 6450>>, <<6457, 6459>>,
       <<6679, 6680>>, <<6683, 6683>>, <<6742, 6742>>, <<6744, 6750>>, <<6752, 6752>>,
       <<6754, 6754>>, <<6757, 6764>>, <<6771, 6780>>, <<6783, 6783>>, <<6823, 6823>>,
       <<6832, 6862>>, <<6912, 6915>>, <<6964, 6964>>, <<6966, 6970>>, <<6972, 6972>>,
       <<6978, 6978>>, <<7019, 7027>>, <<7040, 7041>>, <<7074, 7077>>, <<7080, 7081>>,
       <<7083, 7085>>, <<7142, 7142>>, <<7144, 7145>>, <<7149, 7149>>, <<7151, 7153>>,
       <<7212, 7219>>, <<7222, 7223>>, <<7288, 7293>>, <<7376, 7378>>, <<7380, 7392>>,
       <<7394, 7400>>, <<7405, 7405>>, <<7412, 7412>>, <<7416, 7417>>, <<7468, 7530>>,
       <<7544, 7544>>, <<7579, 7679>>, <<8125, 8125>>, <<8127, 8129>>, <<8141, 8143>>,
       <<8157, 8159>>, <<8173, 8175>>, <<8189, 8190>>, <<8203, 8207>>, <<8216, 8217>>,
       <<8228, 8228>>, <<8231, 8231>>, <<8234, 8238>>, <<8288, 8292>>, <<8294, 8303>>,
       <<8305, 8305>>, <<8319, 8319>>, <<8336, 8348>>, <<8400, 8432>>, <<11388, 11389>>,
       <<11503, 11505>>, <<11631, 11631>>, <<11647, 11647>>, <<11744, 11775>>, <<11823, 11823>>,
       <<12293, 12293>>, <<12330, 12333>>, <<12337, 12341>>, <<12347, 12347>>, <<12441, 12446>>,
       <<12540, 12542>>, <<40981, 40981>>, <<42232, 42237>>, <<42508, 42508>>, <<42607, 42610>>,
       <<42612, 42621>>, <<42623, 42623>>, <<42652, 42655>>, <<42736, 42737>>, <<42752, 42785>>,
       <<42864, 42864>>, <<42888, 42890>>, <<42994, 42996>>, <<43000, 43001>>, <<43010, 43010>>,
       <<43014, 43014>>, <<43019, 43019>>, <<43045, 43046>>, <<43052, 43052>>, <<43204, 43205>>,
       <<43232, 43249>>, <<43263, 43263>>, <<43302, 43309>>, <<43335, 43345>>, <<43392, 43394>>,
       <<43443, 43443>>, <<43446, 43449>>, <<43452, 43453>>, <<43471, 43471>>, <<43493, 43494>>,
       <<43561, 43566>>, <<43569, 43570>>, <<43573, 43574>>, <<43587, 43587>>, <<43596, 43596>>,
       <<43632, 43632>>, <<43644, 43644>>, <<43696, 43696>>, <<43698, 43700>>, <<43703, 43704>>,
       <<43710, 43711>>, <<43713, 43713>>, <<43741, 43741>>, <<43756, 43757>>, <<43763, 43764>>,
       <<43766, 43766>>, <<43867, 43871>>, <<43881, 43883>>, <<44005, 44005>>, <<44008, 44008>>,
       <<44013, 44013>>, <<64286, 64286>>, <<64434, 64450>>, <<65024, 65039>>, <<65043, 65043>>,
       <<65056, 65071>>, <<65106, 65106>>, <<65109, 65109>>, <<65279, 65279>>, <<65287, 65287>>,
       <<65294, 65294>>, <<65306, 65306>>, <<65342, 65342>>, <<65344, 65344>>, <<65392, 65392>>,
       <<65438, 65439>>, <<65507, 65507>>, <<65529, 65531>>, <<66045, 66045>>, <<66272, 66272>>,
       <<66422, 66426>>, <<67456, 67461>>, <<67463, 67504>>, <<67506, 67514>>, <<68097, 68099>>,
       <<68101, 68102>>, <<68108, 68111>>, <<68152, 68154>>, <<68159, 68159>>, <<68325, 68326>>,
       <<68900, 68903>>, <<69291, 69292>>, <<69446, 69456>>, <<69506, 69509>>, <<69633, 69633>>,
       <<69688, 69702>>, <<69744, 69744>>, <<69747, 69748>>, <<69759, 69761>>, <<69811, 69814>>,
       <<69817, 69818>>, <<69821, 69821>>, <<69826, 69826>>, <<69837, 69837>>, <<69888, 69890>>,
       <<69927, 69931>>, <<69933, 69940>>, <<70003, 70003>>, <<70016, 70017>>, <<70070, 70078>>,
       <<70089, 70092>>, <<70095, 70095>>, <<70191, 70193>>, <<70196, 70196>>, <<70198, 70199>>,
       <<70206, 70206>>, <<70367, 70367>>, <<70371, 70378>>, <<70400, 70401>>, <<70459, 70460>>,
       <<70464, 70464>>, <<70502, 70508>>, <<70512, 70516>>, <<70712, 70719>>, <<70722, 70724>>,
       <<70726, 70726>>, <<70750, 70750>>, <<70835, 70840>>, <<70842, 70842>>, <<70847, 70848>>,
       <<70850, 70851>>, <<71090, 71093>>, <<71100, 71101>>, <<71103, 71104>>, <<71132, 71133>>,
       <<71219, 71226>>, <<71229, 71229>>, <<71231, 71232>>, <<71339, 71339>>, <<71341, 71341>>,
       <<71344, 71349>>, <<71351, 71351>>, <<71453, 71455>>, <<71458, 71461>>, <<71463, 71467>>,
       <<71727, 71735>>, <<71737, 71738>>, <<71995, 71996>>, <<71998, 71998>>, <<72003, 72003>>,
       <<72148, 72151>>, <<72154, 72155>>, <<72160, 72160>>, <<72193, 72202>>, <<72243, 72248>>,
       <<72251, 72254>>, <<72263, 72263>>, <<72273, 72278>>, <<72281, 72283>>, <<72330, 72342>>,
       <<72344, 72345>>, <<72752, 72758>>, <<72760, 72765>>, <<72767, 72767>>, <<72850, 72871>>,
       <<72874, 72880>>, <<72882, 72883>>, <<72885, 72886>>, <<73009, 73014>>, <<73018, 73018>>,
       <<73020, 73021>>, <<73023, 73029>>, <<73031, 73031>>, <<73104, 73105>>, <<73109, 73109>>,
       <<73111, 73111>>, <<73459, 73460>>, <<78896, 78904>>, <<92912, 92916>>, <<92976, 92982>>,
       <<92992, 92995>>, <<94031, 94031>>, <<94095, 94111>>, <<94176, 94177>>, <<94179, 94180>>,
       <<110576, 110579>>, <<110581, 110587>>, <<110589, 110590>>, <<113821, 113822>>, <<113824, 113827>>,
       <<118528, 118573>>, <<118576, 118598>>, <<119143, 119145>>, <<119155, 119170>>, <<119173, 119179>>,
       <<119210, 119213>>, <<119362, 119364>>, <<121344, 121398>>, <<121403, 121452>>, <<121461, 121461>>,
       <<121476, 121476>>, <<121499, 121503>>, <<121505, 121519>>, <<122880, 122886>>, <<122888, 122904>>,
       <<122907, 122913>>, <<122915, 122916>>, <<122918, 122922>>, <<123184, 123197>>, <<123566, 123566>>,
       <<123628, 123631>>, <<125136, 125142>>, <<125252, 125259>>, <<127995, 127999>>, <<917505, 917505>>,
       <<917536, 917631>>, <<917760, 917999>> >>

InRanges(c, ranges) ==
    \E k \in 1..Len(ranges) : ranges[k][1] <= c /\ c <= ranges[k][2]

IsCased(c) == InRanges(c, CasedRanges)

IsCaseIgnorable(c) == InRanges(c, CaseIgnorableRanges)

\* c.lower() for one character c on its own: a string of one character, or of
\* two for U+0130 (I with dot above), which lowers to 'i' and U+0307.
LowerChar(c) ==
    IF c = 304 THEN <<105, 775>>
    ELSE IF \E k \in 1..Len(LowerRanges) :
                /\ LowerRanges[k][1] <= c /\ c <= LowerRanges[k][2]
                /\ (c - LowerRanges[k][1]) % LowerRanges[k][3] = 0
    THEN <<c + LowerRanges[CHOOSE k \in 1..Len(LowerRanges) :
                    /\ LowerRanges[k][1] <= c /\ c <= LowerRanges[k][2]
                    /\ (c - LowerRanges[k][1]) % LowerRanges[k][3] = 0][4]>>
    ELSE <<c>>

\* The capital sigma at s[i] (U+03A3) is final: the nearest character before
\* it that is not case-ignorable is cased, and the nearest such character
\* after it, if there is one, is not cased.
FinalSigma(s, i) ==
    LET before == {j \in 1..(i-1) : ~ IsCaseIgnorable(s[j])}
        after == {j \in (i+1)..Len(s) : ~ IsCaseIgnorable(s[j])}
        last == CHOOSE j \in before : \A m \in before : m <= j
        first == CHOOSE j \in after : \A m \in after : j <= m
    IN  /\ before # {}
        /\ IsCased(s[last])
        /\ after = {} \/ ~ IsCased(s[first])

\* s.lower() from character i on: each character lowered on its own, but a
\* capital sigma to the final sigma U+03C2 where it is final, else to U+03C3.
RECURSIVE LowerFrom(_, _)
LowerFrom(s, i) ==
    IF i > Len(s) THEN <<>>
    ELSE (IF s[i] = 931
          THEN <<IF FinalSigma(s, i) THEN 962 ELSE 963>>
          ELSE LowerChar(s[i])) \o LowerFrom(s, i + 1)

\* s.lower()
lower(s) == LowerFrom(s, 1)

HasDot(s) == \E k \in 1..Len(s) : s[k] = Dot

LastDot(s) ==
    CHOOSE k \in 1..Len(s) : s[k] = Dot /\ \A m \in (k+1)..Len(s) : s[m] # Dot

\* s.rsplit('.', 1): one split, at the last dot; the whole string when there is none.
rsplit(s) ==
    IF HasDot(s)
    THEN <<SubSeq(s, 1, LastDot(s) - 1), SubSeq(s, LastDot(s) + 1, Len(s))>>
    ELSE <<s>>

\* Variant: the suffix compared as written, without .lower().
allowed_file_no_lower(filename) ==
    HasDot(filename) /\ rsplit(filename)[2] \in ALLOWED_EXTENSIONS

\* Line 72.
allowed_file(filename) ==
    HasDot(filename) /\ lower(rsplit(filename)[2]) \in ALLOWED_EXTENSIONS

(***************************************************************************)
(* Python values.                                                          *)
(***************************************************************************)
None == "None"

\* The three shapes of the local 'image': not assigned in this request,
\* assigned None (cv2.imdecode could not parse the bytes), or an array.
UnboundImage == [kind |-> "unbound", hsv |-> <<>>, cnts |-> <<>>]
NoneImage == [kind |-> "None", hsv |-> <<>>, cnts |-> <<>>]

\* cv2.imdecode(nparr, cv2.IMREAD_COLOR): the decoded array; None when the
\* bytes are not an image; cv2.error raised when there are no bytes at all.
imdecode(bytes) ==
    IF bytes.kind = "empty"
    THEN [raised |-> "cv2.error", image |-> UnboundImage]
    ELSE IF bytes.kind = "image"
    THEN [raised |-> None,
          image |-> [kind |-> "ndarray", hsv |-> bytes.hsv, cnts |-> bytes.cnts]]
    ELSE [raised |-> None, image |-> NoneImage]

(***************************************************************************)
(* analyze_image, lines 25-49: the dominant colour.                        *)
(***************************************************************************)
\* cv2.inRange on one pixel: every channel within its inclusive range.
inRange(px, lo, hi) == \A c \in 1..3 : lo[c] <= px[c] /\ px[c] <= hi[c]

\* cv2.countNonZero(cv2.inRange(hsv, lo, hi))
countInRange(hsv, lo, hi) ==
    Cardinality({k \in 1..Len(hsv) : inRange(hsv[k], lo, hi)})

\* Variant: >= in place of >, so that a tie selects a label.
DominantColorNonStrict(red_count, blue_count, green_count) ==
    IF red_count >= blue_count /\ red_count >= green_count THEN "Red"
    ELSE IF blue_count >= red_count /\ blue_count >= green_count THEN "Blue"
    ELSE IF green_count >= red_count /\ green_count >= blue_count THEN "Green"
    ELSE None

\* Lines 43-49: the label, None unless one count exceeds both others.
DominantColor(red_count, blue_count, green_count) ==
    IF red_count > blue_count /\ red_count > green_count THEN "Red"
    ELSE IF blue_count > red_count /\ blue_count > green_count THEN "Blue"
    ELSE IF green_count > red_count /\ green_count > blue_count THEN "Green"
    ELSE None

(***************************************************************************)
(* analyze_image, lines 58-64: the plate filter.                           *)
(***************************************************************************)
Xs(cnt) == {cnt[k][1] : k \in 1..Len(cnt)}
Ys(cnt) == {cnt[k][2] : k \in 1..Len(cnt)}
Min(S) == CHOOSE v \in S : \A u \in S : v <= u
Max(S) == CHOOSE v \in S : \A u \in S : u <= v
Abs(v) == IF v < 0 THEN -v ELSE v

\* cv2.boundingRect(cnt): the upright rectangle over the points, both ends
\* included; an empty point set gives the empty rectangle (0, 0, 0, 0).
boundingRect(cnt) ==
    IF Len(cnt) = 0
    THEN [x |-> 0, y |-> 0, w |-> 0, h |-> 0]
    ELSE [x |-> Min(Xs(cnt)), y |-> Min(Ys(cnt)),
          w |-> Max(Xs(cnt)) - Min(Xs(cnt)) + 1,
          h |-> Max(Ys(cnt)) - Min(Ys(cnt)) + 1]

\* Twice cv2.contourArea(cnt) (the shoelace sum without its final halving), so
\* that the half-pixel areas of integer polygons stay integers.
contourArea2(cnt) ==
    LET n == Len(cnt)
        nxt(k) == IF k = n THEN 1 ELSE k + 1
        term[k \in 0..n] ==
            IF k = 0 THEN 0
            ELSE term[k-1] + cnt[k][1] * cnt[nxt(k)][2] - cnt[nxt(k)][1] * cnt[k][2]
    IN  Abs(term[n])

\* Variant: the area bounds inclusive.
PlateTestInclusive(w, h, area2) ==
    /\ AspectLow * h < w /\ w < AspectHigh * h
    /\ 2 * AreaLow <= area2 /\ area2 <= 2 * AreaHigh

\* Line 63, for h # 0: 2 < float(w) / h < 5 and 100 < area < 5000, with
\* area2 twice the area.
PlateTest(w, h, area2) ==
    /\ AspectLow * h < w /\ w < AspectHigh * h
    /\ 2 * AreaLow < area2 /\ area2 < 2 * AreaHigh

\* Line 59: number_plates = [], a fresh list in every call.
NewPlateList == <<>>

\* Lines 60-64: the loop over cnts from contour i on.  float(w) / h raises
\* ZeroDivisionError when h = 0, which ends the call.
RECURSIVE PlateLoop(_, _, _)
PlateLoop(cnts, i, number_plates) ==
    IF i > Len(cnts)
    THEN [raised |-> None, number_plates |-> number_plates]
    ELSE LET rect == boundingRect(cnts[i]) IN
         IF rect.h = 0
         THEN [raised |-> "ZeroDivisionError", number_plates |-> number_plates]
         ELSE IF PlateTest(rect.w, rect.h, contourArea2(cnts[i]))
              THEN PlateLoop(cnts, i + 1, Append(number_plates, rect))
              ELSE PlateLoop(cnts, i + 1, number_plates)

\* analyze_image(image): what the call raises, and the dictionary it returns
\* when it raises nothing.  cv2.cvtColor(None, ...) at line 22 raises cv2.error.
analyze_image(img) ==
    IF img.kind # "ndarray"
    THEN [raised |-> "cv2.error", result |-> <<>>]
    ELSE LET red_count == countInRange(img.hsv, red_lower, red_upper)
             blue_count == countInRange(img.hsv, blue_lower, blue_upper)
             green_count == countInRange(img.hsv, green_lower, green_upper)
             dominant_color == DominantColor(red_count, blue_count, green_count)
             loop == PlateLoop(img.cnts, 1, NewPlateList)
         IN  IF loop.raised # None
             THEN [raised |-> loop.raised, result |-> <<>>]
             ELSE [raised |-> None,
                   result |-> <<[color |-> dominant_color,
                                 number_plates |-> loop.number_plates]>>]

(***************************************************************************)
(* index(), lines 74-101.                                                  *)
(***************************************************************************)
\* render_template(template, error=..., result=...): a 200 response.
Render(template, error, result) ==
    [status |-> 200, template |-> template, error |-> error,
     result |-> result, raised |-> None]

\* An exception that leaves index(): Flask answers 500 Internal Server Error.
ServerError(exc) ==
    [status |-> 500, template |-> None, error |-> None,
     result |-> <<>>, raised |-> exc]

NoResponse ==
    [status |-> 0, template |-> None, error |-> None,
     result |-> <<>>, raised |-> None]

NoBytes == [kind |-> "absent", hsv |-> <<>>, cnts |-> <<>>]

NoRequest ==
    [method |-> "none", has_file |-> FALSE, filename |-> <<>>, upload |-> NoBytes]

\* Line 76: request.method == 'POST'
IsPost(req) == req.method = "POST"

\* Line 79: 'file' not in request.files
NoFilePart(req) == ~ req.has_file

\* Variant: the test 'file.filename is None'; the filename of a file part is
\* always a string.
NoSelectedFileIsNone(req) == FALSE

\* Line 85: file.filename == ''
NoSelectedFile(req) == req.filename = <<>>

\* Line 89: file and allowed_file(file.filename); a FileStorage is true when
\* its filename is not empty.
IsImageFile(req) == req.filename # <<>> /\ allowed_file(req.filename)

\* Line 101 reached by a request that is not a POST.
IndexGet(req) ==
    /\ request = NoRequest
    /\ ~ IsPost(req)
    /\ request' = req
    /\ steps' = <<"method_check", "render">>
    /\ image' = UnboundImage
    /\ response' = Render("index.html", None, <<>>)

\* Variant: the form rendered without the error argument.
IndexNoFilePartSilent(req) ==
    /\ request = NoRequest
    /\ IsPost(req)
    /\ NoFilePart(req)
    /\ request' = req
    /\ steps' = <<"method_check", "file_part_check", "render">>
    /\ image' = UnboundImage
    /\ response' = Render("index.html", None, <<>>)

\* Lines 79-80.
IndexNoFilePart(req) ==
    /\ request = NoRequest
    /\ IsPost(req)
    /\ NoFilePart(req)
    /\ request' = req
    /\ steps' = <<"method_check", "file_part_check", "render">>
    /\ image' = UnboundImage
    /\ response' = Render("index.html", "No file part", <<>>)

\* Lines 82-86.
IndexNoSelectedFile(req) ==
    /\ request = NoRequest
    /\ IsPost(req)
    /\ ~ NoFilePart(req)
    /\ NoSelectedFile(req)
    /\ request' = req
    /\ steps' = <<"method_check", "file_part_check", "filename_check", "render">>
    /\ image' = UnboundImage
    /\ response' = Render("index.html", "No selected file", <<>>)

\* Line 89 false, then line 101: the form again, with no error argument.
IndexNotImage(req) ==
    /\ request = NoRequest
    /\ IsPost(req)
    /\ ~ NoFilePart(req)
    /\ ~ NoSelectedFile(req)
    /\ ~ IsImageFile(req)
    /\ request' = req
    /\ steps' = <<"method_check", "file_part_check", "filename_check",
                  "extension_check", "render">>
    /\ image' = UnboundImage
    /\ response' = Render("index.html", None, <<>>)

\* Lines 89-93 when cv2.imdecode raises: the exception leaves index() with
\* 'image' unassigned and analyze_image not called.
IndexDecodeRaises(req) ==
    /\ request = NoRequest
    /\ IsPost(req)
    /\ ~ NoFilePart(req)
    /\ ~ NoSelectedFile(req)
    /\ IsImageFile(req)
    /\ imdecode(req.upload).raised # None
    /\ request' = req
    /\ steps' = <<"method_check", "file_part_check", "filename_check",
                  "extension_check", "read", "imdecode">>
    /\ image' = UnboundImage
    /\ response' = ServerError(imdecode(req.upload).raised)

\* Lines 89-99: read, decode, analyse, render the result.  Nothing tests the
\* decoded image before analyze_image is called with it; an exception raised
\* in the call leaves index() before line 99.
IndexAnalyze(req) ==
    /\ request = NoRequest
    /\ IsPost(req)
    /\ ~ NoFilePart(req)
    /\ ~ NoSelectedFile(req)
    /\ IsImageFile(req)
    /\ imdecode(req.upload).raised = None
    /\ request' = req
    /\ image' = imdecode(req.upload).image
    /\ LET analysis_result == analyze_image(imdecode(req.upload).image)
           checks == <<"method_check", "file_part_check", "filename_check",
                       "extension_check", "read", "imdecode", "analyze_image">>
       IN  IF analysis_result.raised = None
           THEN /\ steps' = Append(checks, "render")
                /\ response' = Render("result.html", None, analysis_result.result)
           ELSE /\ steps' = checks
                /\ response' = ServerError(analysis_result.raised)

\* The response has been sent: the request and the locals of index() are gone.
EndRequest ==
    /\ request # NoRequest
    /\ request' = NoRequest
    /\ steps' = <<>>
    /\ image' = UnboundImage
    /\ UNCHANGED response

Init ==
    /\ request = NoRequest
    /\ steps = <<>>
    /\ image = UnboundImage
    /\ response = NoResponse

(***************************************************************************)
(* The requests the specifications draw from.                              *)
(***************************************************************************)
\* 'photo.txt'
Str_photo_txt == <<112, 104, 111, 116, 111, 46, 116, 120, 116>>
\* 'a.png.txt'
Str_a_png_txt == <<97, 46, 112, 110, 103, 46, 116, 120, 116>>
\* 'a.txt.png'
Str_a_txt_png == <<97, 46, 116, 120, 116, 46, 112, 110, 103>>
\* 'PHOTO.JPG'
Str_PHOTO_JPG == <<80, 72, 79, 84, 79, 46, 74, 80, 71>>
\* 'x.jpeg'
Str_x_jpeg == <<120, 46, 106, 112, 101, 103>>
\* 'png'
Str_png == <<112, 110, 103>>
\* 'a.'
Str_a_dot == <<97, 46>>
\* 'a.PN' and C cedilla
Str_a_PN_Ccedilla == <<97, 46, 80, 78, 199>>
\* 'x.jp', I with dot above, 'g'
Str_x_jp_Idot_g == <<120, 46, 106, 112, 304, 103>>
\* 'a.' and the Kelvin sign
Str_a_Kelvin == <<97, 46, 8490>>
\* E acute and '.PNG'
Str_Eacute_PNG == <<201, 46, 80, 78, 71>>
\* 'a.', capital alpha, capital sigma
Str_a_AlphaSigma == <<97, 46, 913, 931>>
\* A grave and '.JpEg'
Str_Agrave_jpeg == <<192, 46, 74, 112, 69, 103>>
\* 'car.png'
Str_car_png == <<99, 97, 114, 46, 112, 110, 103>>

SampleNames ==
    { <<>>, Str_photo_txt, Str_a_png_txt, Str_a_txt_png, Str_PHOTO_JPG,
      Str_x_jpeg, Str_png, Str_a_dot, Str_a_PN_Ccedilla, Str_x_jp_Idot_g,
      Str_a_Kelvin, Str_Eacute_PNG, Str_a_AlphaSigma, Str_Agrave_jpeg }

FewNames == { <<>>, Str_photo_txt, Str_car_png }

\* '.', 'p', 'n', 'g', 'G'
NameAlphabet == {46, 112, 110, 103, 71}

GeneratedNames == UNION { [1..n -> NameAlphabet] : n \in 0..MaxNameLen }

\* HSV pixels on and next to the edges of the three bands, and a grey one.
PixelBank ==
    { <<170, 100, 100>>, <<179, 255, 255>>, <<169, 255, 255>>,
      <<100, 100, 100>>, <<140, 99, 255>>,
      <<40, 50, 50>>, <<80, 255, 49>>, <<0, 0, 128>> }

PixelSeqs == UNION { [1..n -> PixelBank] : n \in 1..MaxPixels }

FewPixelSeqs ==
    { << <<170, 100, 100>>, <<179, 255, 255>>, <<100, 100, 100>> >>,
      << <<100, 100, 100>>, <<40, 50, 50>> >> }

\* The corners of an upright rectangle, dx by dy between corner points.
RectContour(x, y, dx, dy) ==
    << <<x, y>>, <<x, y + dy>>, <<x + dx, y + dy>>, <<x + dx, y>> >>

Plate30x10 == RectContour(5, 7, 29, 9)            \* w/h = 3, area 261
Square == RectContour(0, 0, 20, 20)               \* w/h = 1, area 400
Ratio2 == RectContour(0, 0, 19, 9)                \* w/h = 2, area 171
Ratio5 == RectContour(0, 0, 49, 9)                \* w/h = 5, area 441
Area100 == RectContour(0, 0, 20, 5)               \* w/h = 3.5, area 100
Area100Half == << <<0, 0>>, <<29, 1>>, <<31, 8>> >> \* w/h = 32/9, area 100.5
Area50 == << <<0, 0>>, <<29, 10>>, <<19, 10>> >>  \* w/h = 30/11, area 50
Area4960 == RectContour(0, 0, 124, 40)            \* w*h = 5125, area 4960
Area5000 == RectContour(0, 0, 125, 40)            \* w/h = 126/41, area 5000
Area10000 == RectContour(0, 0, 200, 50)           \* w/h = 201/51, area 10000

ContourBank ==
    { Plate30x10, Square, Ratio2, Ratio5, Area100, Area100Half, Area50,
      Area4960, Area5000, Area10000 }

ContourSeqs == UNION { [1..n -> ContourBank] : n \in 0..MaxCnts }

FewContourSeqs == { <<>>, <<Plate30x10, Square, Plate30x10, Area4960>> }

\* Bytes that are no image, and no bytes at all.
CorruptBytes == [kind |-> "corrupt", hsv |-> <<>>, cnts |-> <<>>]
EmptyBytes == [kind |-> "empty", hsv |-> <<>>, cnts |-> <<>>]

Uploads(pixels, contours) ==
    {CorruptBytes, EmptyBytes} \cup [kind : {"image"}, hsv : pixels, cnts : contours]

\* Requests without a 'file' part, and requests with one: a filename and the
\* uploaded bytes.  methods: the methods of the requests that carry a file.
Requests(methods, names, uploads) ==
    [method : {"GET", "POST"}, has_file : {FALSE}, filename : {<<>>}, upload : {NoBytes}]
    \cup [method : methods, has_file : {TRUE}, filename : names, upload : uploads]

\* The server takes one request at a time and answers it before the next.
Serve(requests) ==
    \/ \E req \in requests : IndexGet(req)
    \/ \E req \in requests : IndexNoFilePart(req)
    \/ \E req \in requests : IndexNoSelectedFile(req)
    \/ \E req \in requests : IndexNotImage(req)
    \/ \E req \in requests : IndexDecodeRaises(req)
    \/ \E req \in requests : IndexAnalyze(req)
    \/ EndRequest

OnePixelSeq == { << <<170, 100, 100>> >> }

\* The handler on a sample of requests.
Next ==
    Serve(Requests({"GET", "POST"}, SampleNames,
                   Uploads(FewPixelSeqs, FewContourSeqs)))

Spec == Init /\ [][Next]_vars

\* The handler on every filename up to MaxNameLen characters, and the samples.
NextAllowed ==
    Serve(Requests({"POST"}, SampleNames \cup GeneratedNames,
                   Uploads(OnePixelSeq, {<<>>})))

SpecAllowed == Init /\ [][NextAllowed]_vars

\* The handler on every image of up to MaxPixels pixels of the bank.
NextColor ==
    Serve(Requests({"POST"}, FewNames,
                   Uploads(PixelSeqs, {<<Plate30x10>>})))

SpecColor == Init /\ [][NextColor]_vars

\* The handler on every image with up to MaxCnts contours of the bank.
NextPlates ==
    Serve(Requests({"POST"}, FewNames,
                   Uploads(OnePixelSeq, ContourSeqs)))

SpecPlates == Init /\ [][NextPlates]_vars

(***************************************************************************)
(* The properties.                                                         *)
(***************************************************************************)
\* index() has answered the request in 'request'.
Answered == request # NoRequest

Did(op) == \E k \in 1..Len(steps) : steps[k] = op

\* How many times index() called analyze_image for the request.
Calls == Cardinality({k \in 1..Len(steps) : steps[k] = "analyze_image"})

\* Character c is the lower-case ASCII letter l (97..122) or its capital.
SameLetter(c, l) == c = l \/ c = l - 32

\* The name ends in '.' followed by png, jpg or jpeg in any case.  The
\* extensions hold no dot, so that dot is the last one of the name.
EndsWithAllowedExtension(fn) ==
    \E ext \in { <<112, 110, 103>>, <<106, 112, 103>>, <<106, 112, 101, 103>> } :
        /\ Len(fn) > Len(ext)
        /\ fn[Len(fn) - Len(ext)] = 46
        /\ \A k \in 1..Len(ext) : SameLetter(fn[Len(fn) - Len(ext) + k], ext[k])

\* The upload passed the three validation checks of a POST.
PassedValidation ==
    /\ request.method = "POST"
    /\ request.has_file
    /\ request.filename # <<>>
    /\ EndsWithAllowedExtension(request.filename)

\* The contour is one the plate filter is to keep: 2 < w/h < 5 and
\* 100 < area < 5000, the area being half of contourArea2.
Qualifies(cnt) ==
    LET rect == boundingRect(cnt) IN
    /\ rect.h > 0
    /\ 2 * rect.h < rect.w /\ rect.w < 5 * rect.h
    /\ 200 < contourArea2(cnt) /\ contourArea2(cnt) < 10000

\* The rectangles of the qualifying contours, in the order of the contours.
QualifyingRects(cnts) ==
    LET kept == SelectSeq(cnts, Qualifies)
    IN  [k \in 1..Len(kept) |-> boundingRect(kept[k])]

\* C1: a POST whose file has a non-empty name without an allowed extension
\* ends in a rendered error message, and analyze_image is not called.
C1_DisallowedExtensionShowsError ==
    ( /\ Answered
      /\ request.method = "POST"
      /\ request.has_file
      /\ request.filename # <<>>
      /\ ~ EndsWithAllowedExtension(request.filename) )
    => /\ response.status = 200
       /\ response.error # None
       /\ ~ Did("analyze_image")

\* C2: a POST without a 'file' part gets the form with the 'No file part'
\* error; the filename check, the extension check, the decode and
\* analyze_image are not reached.
C2_NoFilePart ==
    (Answered /\ request.method = "POST" /\ ~ request.has_file)
    => /\ response = Render("index.html", "No file part", <<>>)
       /\ ~ Did("filename_check")
       /\ ~ Did("extension_check")
       /\ ~ Did("imdecode")
       /\ ~ Did("analyze_image")
       /\ image = UnboundImage

C2_Witness ==
    /\ Answered
    /\ request.method = "POST"
    /\ ~ request.has_file
    /\ response.error = "No file part"
    /\ steps = <<"method_check", "file_part_check", "render">>

\* C3: a POST whose file has the empty filename gets a rendered 'No selected
\* file' message (a 200 response, no exception); the upload is not decoded and
\* analyze_image is not called.
C3_NoSelectedFile ==
    (Answered /\ request.method = "POST" /\ request.has_file /\ request.filename = <<>>)
    => /\ response = Render("index.html", "No selected file", <<>>)
       /\ response.status = 200
       /\ response.raised = None
       /\ ~ Did("read")
       /\ ~ Did("imdecode")
       /\ ~ Did("analyze_image")
       /\ image = UnboundImage

C3_Witness ==
    /\ Answered
    /\ request.method = "POST"
    /\ request.has_file
    /\ request.filename = <<>>
    /\ request.upload.kind = "image"
    /\ response.error = "No selected file"

\* C4: the colour of a result is Red iff red > blue and red > green, Blue iff
\* blue > red and blue > green, Green iff green > red and green > blue, and
\* None in every other case, for the counts of the three bands over the image.
C4_ColourLabel ==
    (Answered /\ response.template = "result.html")
    => LET red == countInRange(image.hsv, red_lower, red_upper)
           blue == countInRange(image.hsv, blue_lower, blue_upper)
           green == countInRange(image.hsv, green_lower, green_upper)
           color == response.result[1].color
       IN  /\ color \in {"Red", "Blue", "Green", None}
           /\ (color = "Red") <=> (red > blue /\ red > green)
           /\ (color = "Blue") <=> (blue > red /\ blue > green)
           /\ (color = "Green") <=> (green > red /\ green > blue)
           /\ (color = None) <=> ~ \/ (red > blue /\ red > green)
                                   \/ (blue > red /\ blue > green)
                                   \/ (green > red /\ green > blue)

\* A tie for the maximum between two bands that are not empty: no label.
C4_Witness ==
    /\ Answered
    /\ response.template = "result.html"
    /\ countInRange(image.hsv, red_lower, red_upper) = 1
    /\ countInRange(image.hsv, blue_lower, blue_upper) = 1
    /\ countInRange(image.hsv, green_lower, green_upper) = 0
    /\ response.result[1].color = None

\* C5: number_plates is the sequence of the bounding rectangles of the
\* contours with 2 < w/h < 5 and 100 < area < 5000, in contour order, with
\* nothing removed; a rectangle with w = h is never in it.
C5_PlateList ==
    (Answered /\ response.template = "result.html")
    => /\ response.result[1].number_plates = QualifyingRects(image.cnts)
       /\ \A k \in 1..Len(response.result[1].number_plates) :
              response.result[1].number_plates[k].w
                  # response.result[1].number_plates[k].h

\* Two contours with the same rectangle: both are in the result.
C5_Witness ==
    /\ Answered
    /\ response.template = "result.html"
    /\ image.cnts = <<Plate30x10, Plate30x10>>
    /\ Len(response.result[1].number_plates) = 2
    /\ response.result[1].number_plates[1] = response.result[1].number_plates[2]

\* C6: analyze_image is never called with an image that is None.
C6_NeverAnalyzesNone ==
    Did("analyze_image") => image.kind = "ndarray"

\* C8: a POST that passes validation calls analyze_image once and renders the
\* result page with what the call returned; every other request calls it zero
\* times; no request calls it twice.
C8_OneAnalysisThenResult ==
    Answered
    => /\ Calls <= 1
       /\ PassedValidation
            => /\ Calls = 1
               /\ response.template = "result.html"
               /\ Len(response.result) = 1
               /\ steps[Len(steps)] = "render"
       /\ ~ PassedValidation => Calls = 0

\* C10: allowed_file(filename) is true iff the filename has a '.' and what
\* follows its last '.' is png, jpg or jpeg in any case; index() decodes the
\* upload of a named file exactly then.
C10_AllowedFile ==
    (Answered /\ request.has_file)
    => /\ allowed_file(request.filename) <=> EndsWithAllowedExtension(request.filename)
       /\ (request.method = "POST" /\ request.filename # <<>>)
            => /\ Did("extension_check")
               /\ Did("imdecode") <=> EndsWithAllowedExtension(request.filename)

\* An upper-case extension is accepted.
C10_Witness ==
    /\ Answered
    /\ request.method = "POST"
    /\ request.filename = Str_PHOTO_JPG
    /\ Did("imdecode")

====
